---- MODULE Spec2Model ----
(***************************************************************************)
(* gopwgen: the password generator of package pwgen (alphabet derivation,  *)
(* random source selection, Generate, Passwords, Print).                   *)
(*                                                                         *)
(* Bytes are their ASCII codes, strings are sequences of bytes.            *)
(***************************************************************************)
EXTENDS Integers, Sequences, FiniteSets, TLC

(* ------------------------------ bounds -------------------------------- *)
\* longest password of the generation runs
MaxLen == 3
\* largest number of passwords asked of a seeded generator
MaxNumPw == 4
\* Int63 of a source returns a value of 0 .. RandMod-1 (the code: 0 .. 2^63-1)
RandMod == 2
\* number of states of the seeded pseudo-random source
StateMod == 16
\* values the wall clock (time.Now().UnixNano()) can show
MaxClock == 2
\* longest positional argument of the command line, in bytes
MaxArgLen == 2
\* longest password of the runs that compare two generators
MaxDetLen == 2
\* largest explicit seed given to randomSource
MaxSeed == 2

(* --------------------------- program constants ------------------------ *)
defaultPwLength == 8
defaultNumPw == 160
screenWidth == 80

\* the bytes lo, lo+1, .., hi
Bytes(lo, hi) == [i \in 1..(hi - lo + 1) |-> lo + i - 1]

pwDigits == Bytes(48, 57)
pwLowers == Bytes(97, 122)
pwUppers == Bytes(65, 90)
\* !"#$%&\'()*+,-./:;<=>?@[\]^_`{|}~   (the literal holds the backslash twice)
pwSymbols ==
    <<33, 34, 35, 36, 37, 38, 92, 39, 40, 41, 42, 43, 44, 45, 46, 47,
      58, 59, 60, 61, 62, 63, 64, 91, 92, 93, 94, 95, 96, 123, 124, 125, 126>>
\* B8G6I1l0OQDS5Z2
pwAmbiguous == <<66, 56, 71, 54, 73, 49, 108, 48, 79, 81, 68, 83, 53, 90, 50>>
\* 01aeiouyAEIOUY
pwVowels == <<48, 49, 97, 101, 105, 111, 117, 121, 65, 69, 73, 79, 85, 89>>

SPACE == <<32>>
NEWLINE == <<10>>

(* ------------------------------ helpers ------------------------------- *)
Elems(s) == {s[i] : i \in 1..Len(s)}

\* some byte of s is in the set B
ContainsAny(s, B) == \E i \in 1..Len(s) : s[i] \in B

\* sort.Slice(removeChars, less): the bytes of s in increasing order, each
\* as often as s holds it, sorted by halving the value range lo..hi
RECURSIVE sortRange(_, _, _)
sortRange(s, lo, hi) ==
    IF s = <<>> \/ lo = hi THEN s
    ELSE LET mid == (lo + hi) \div 2
             low(b) == b <= mid
             high(b) == b > mid
         IN sortRange(SelectSeq(s, low), lo, mid)
            \o sortRange(SelectSeq(s, high), mid + 1, hi)

sortSlice(s) == sortRange(s, 0, 255)

\* sort.Search(rc, func(i) { return removeChars[i] >= c }): binary search on
\* the indices i..j-1 (0-based) for the least index whose byte is >= c
RECURSIVE sortSearch(_, _, _, _)
sortSearch(s, c, i, j) ==
    IF i < j
    THEN LET h == (i + j) \div 2
         IN IF ~(s[h + 1] >= c)
            THEN sortSearch(s, c, h + 1, j)
            ELSE sortSearch(s, c, i, h)
    ELSE i

(* ------------------------------ alphabet ------------------------------ *)
NoErr == "nil"
ErrLength == "password length should be greater than 0"
ErrNoSymbols == "no symbols for passwords generation"
ErrOpen == "open: no such file"
ErrRead == "read: input/output error"
ErrClose == "close: input/output error"
ErrWrite == "write: input/output error"

\* the candidate bytes, before removal (lines 260-270)
candidateChars(p) ==
    pwLowers
    \o (IF ~p.noNumerals THEN pwDigits ELSE <<>>)
    \o (IF ~p.noCapitalize THEN pwUppers ELSE <<>>)
    \o (IF p.symbols THEN pwSymbols ELSE <<>>)

\* the test of lines 276-278: c is found in the sorted removeChars
found(sorted, c) ==
    LET rc == Len(sorted)
        i == sortSearch(sorted, c, 0, rc)
    IN i < rc /\ sorted[i + 1] = c

\* the loop of lines 275-281: the bytes of chars not found, in their order
filterChars(chars, sorted) ==
    LET keep(c) == ~found(sorted, c)
    IN SelectSeq(chars, keep)

\* an alphabet that is returned without the test for emptiness
alphabetUnchecked(p, removeChars) ==
    [chars |-> IF Len(removeChars) > 0
               THEN filterChars(candidateChars(p), sortSlice(removeChars))
               ELSE candidateChars(p),
     err |-> NoErr]

\* pg.alphabet(removeChars): [chars, err]
alphabet(p, removeChars) ==
    LET byteChars == candidateChars(p)
        result == IF Len(removeChars) > 0
                  THEN filterChars(byteChars, sortSlice(removeChars))
                  ELSE byteChars
    IN IF Len(result) < 1
       THEN [chars |-> <<>>, err |-> ErrNoSymbols]
       ELSE [chars |-> result, err |-> NoErr]

(* ---------------------------- random source --------------------------- *)
\* rand.NewSource(seed): the state a seed initialises
newSource(seed) == [secure |-> FALSE, state |-> seed % StateMod]

\* a source that is seeded from the clock whatever the seed
randomSourceClock(secure, seed, now) ==
    IF secure THEN [secure |-> TRUE, state |-> 0]
    ELSE newSource(now)

\* randomSource(secure, seed), reading the clock as now
randomSource(secure, seed, now) ==
    IF secure THEN [secure |-> TRUE, state |-> 0]
    ELSE IF seed # 0 THEN newSource(seed)
    ELSE newSource(now)

\* the seeded source: next state, and the Int63 value a state yields
nextState(s) == (s + 7) % StateMod
int63Of(s) == (s * RandMod) \div StateMod

\* the state of the seeded source after k calls of Int63
advance(s, k) == (s + 7 * k) % StateMod

\* the next k Int63 values of the seeded source in state s
seededStream(s, k) == [i \in 1..k |-> int63Of(advance(s, i))]

\* the sequences of k Int63 values the source r may return next:
\* CryptoRandSource.Int63 reads fresh entropy on every call
Draws(r, k) ==
    IF r.secure THEN [1..k -> 0..(RandMod - 1)]
    ELSE {seededStream(r.state, k)}

\* the source after k calls of Int63
After(r, k) == IF r.secure THEN r ELSE [r EXCEPT !.state = advance(r.state, k)]

\* rand.Intn(n) on the Int63 value v: an index of 0 .. n-1
Intn(v, n) == (v * n) \div RandMod

(* ----------------------------- ParseArgs ------------------------------- *)
ErrSyntax == "strconv.Atoi: invalid syntax"
ErrLengthPositive == "password length is to be positive"
ErrNumberPositive == "passwords numbers is to be positive"

\* n = n*10 + int(ch) over the bytes of s, all of them digits
RECURSIVE atoiDigits(_)
atoiDigits(s) ==
    IF s = <<>> THEN 0
    ELSE atoiDigits(SubSeq(s, 1, Len(s) - 1)) * 10 + (s[Len(s)] - 48)

\* strconv.Atoi(s) for a string shorter than 19 bytes: an optional sign, then
\* one decimal digit or more; [n, err]
Atoi(s) ==
    LET signed == s # <<>> /\ s[1] \in {45, 43}
        digits == IF signed THEN Tail(s) ELSE s
        n == atoiDigits(digits)
    IN IF s = <<>> THEN [n |-> 0, err |-> ErrSyntax]
       ELSE IF digits = <<>> THEN [n |-> 0, err |-> ErrSyntax]
       ELSE IF \E i \in 1..Len(digits) : digits[i] \notin 48..57
       THEN [n |-> 0, err |-> ErrSyntax]
       ELSE [n |-> IF s[1] = 45 THEN 0 - n ELSE n, err |-> NoErr]

\* a test that lets zero through
negative(n) == n < 0

\* if pwLength < 1, if numPw < 1
lessThanOne(n) == n < 1

\* ParseArgs(args): [pwLength, numPw, err]
ParseArgs(a) ==
    LET fail(e) == [pwLength |-> 0, numPw |-> 0, err |-> e]
        n == Len(a)
        first == Atoi(a[1])
        second == Atoi(a[2])
    IN IF n = 1
       THEN IF first.err # NoErr THEN fail(first.err)
            ELSE IF lessThanOne(first.n) THEN fail(ErrLengthPositive)
            ELSE [pwLength |-> first.n, numPw |-> defaultNumPw, err |-> NoErr]
       ELSE IF n >= 2
       THEN IF first.err # NoErr THEN fail(first.err)
            ELSE IF lessThanOne(first.n) THEN fail(ErrLengthPositive)
            ELSE IF second.err # NoErr THEN fail(second.err)
            ELSE IF lessThanOne(second.n) THEN fail(ErrNumberPositive)
            ELSE [pwLength |-> first.n, numPw |-> second.n, err |-> NoErr]
       ELSE [pwLength |-> defaultPwLength, numPw |-> defaultNumPw,
             err |-> NoErr]

(* ------------------------------- New ---------------------------------- *)
NoPg == [none |-> TRUE]
NoFile == [status |-> "none", content |-> <<>>]
NoRandom == [secure |-> FALSE, state |-> 0]

\* sha1.Sum of the content, its first 8 bytes read little-endian: a
\* deterministic digest of the content
RECURSIVE sha1Seed(_)
sha1Seed(content) ==
    IF content = <<>> THEN 7
    ELSE (31 * sha1Seed(Tail(content)) + Head(content)) % 251

\* a New that reads the seed file only when the seed is going to be used
NewSeedWhenUsed(a, f) ==
    LET fail(e) == [pg |-> NoPg, seed |-> 0, err |-> e]
        used == a.sha1File # "" /\ ~a.secure
        rc == a.removeChars
              \o (IF a.ambiguous THEN pwAmbiguous ELSE <<>>)
              \o (IF a.noVowels THEN pwVowels ELSE <<>>)
              \o (IF a.noNumerals THEN pwDigits ELSE <<>>)
        p0 == [pwLength |-> a.pwLength, numPw |-> a.numPw,
               noNumerals |-> a.noNumerals, numerals |-> a.numerals,
               oneLine |-> a.oneLine, noCapitalize |-> a.noCapitalize,
               ambiguous |-> a.ambiguous, symbols |-> a.symbols,
               secure |-> a.secure, chars |-> <<>>]
        al == alphabet(p0, rc)
    IN IF a.pwLength < 1 \/ a.numPw < 1 THEN fail(ErrLength)
       ELSE IF used /\ f.status = "noopen" THEN fail(ErrOpen)
       ELSE IF used /\ f.status = "noread" THEN fail(ErrRead)
       ELSE IF used /\ f.status = "noclose" THEN fail(ErrClose)
       ELSE IF al.err # NoErr THEN fail(al.err)
       ELSE [pg |-> [p0 EXCEPT !.chars = al.chars],
             seed |-> IF used THEN sha1Seed(f.content) ELSE 0,
             err |-> NoErr]

\* New(pwLength, numPw, removeChars, sha1File, flags...) with the file f at
\* the path: [pg, seed, err]; the random source is chosen from seed
New(a, f) ==
    LET fail(e) == [pg |-> NoPg, seed |-> 0, err |-> e]
        seed == IF a.sha1File # "" THEN sha1Seed(f.content) ELSE 0
        rc1 == a.removeChars \o (IF a.ambiguous THEN pwAmbiguous ELSE <<>>)
        rc2 == rc1 \o (IF a.noVowels THEN pwVowels ELSE <<>>)
        rc3 == rc2 \o (IF a.noNumerals THEN pwDigits ELSE <<>>)
        p0 == [pwLength |-> a.pwLength, numPw |-> a.numPw,
               noNumerals |-> a.noNumerals, numerals |-> a.numerals,
               oneLine |-> a.oneLine, noCapitalize |-> a.noCapitalize,
               ambiguous |-> a.ambiguous, symbols |-> a.symbols,
               secure |-> a.secure, chars |-> <<>>]
        al == alphabet(p0, rc3)
    IN IF a.pwLength < 1 THEN fail(ErrLength)
       ELSE IF a.numPw < 1 THEN fail(ErrLength)
       ELSE IF a.sha1File # "" /\ f.status = "noopen" THEN fail(ErrOpen)
       ELSE IF a.sha1File # "" /\ f.status = "noread" THEN fail(ErrRead)
       ELSE IF a.sha1File # "" /\ f.status = "noclose" THEN fail(ErrClose)
       ELSE IF al.err # NoErr THEN fail(al.err)
       ELSE [pg |-> [p0 EXCEPT !.chars = al.chars], seed |-> seed, err |-> NoErr]

(* ----------------------------- Generate ------------------------------- *)
\* a choice that returns the position drawn instead of the byte at it
choiceFromStringIndex(alpha, v) == Intn(v, Len(alpha)) + 1

choiceFromString(alpha, v) == alpha[Intn(v, Len(alpha)) + 1]
choice(alpha, v) == alpha[Intn(v, Len(alpha)) + 1]

\* a test that forgets noNumerals
digitPlacedAnyway(p, n) == p.numerals /\ (n > 0)

\* the digit is placed when numerals are asked for and a position remains
digitPlaced(p, n) == ~p.noNumerals /\ p.numerals /\ (n > 0)

\* a fill that appends to the password instead of assigning its positions
fillAppend(pw, chars, n, d, k) ==
    pw \o [x \in 1..(n + 1) |-> choice(chars, d[k + n - (x - 1)])]

\* for i := n; i >= 0; i-- { password[i] = pg.choice(pg.chars) }: position
\* i (0-based) takes the draw d[k + n - i]
fill(pw, chars, n, d, k) ==
    [x \in 1..Len(pw) |->
        IF x - 1 <= n THEN choice(chars, d[k + n - (x - 1)]) ELSE pw[x]]

\* a swap that forgets its second assignment
swapOneWay(pw, i, j) == [pw EXCEPT ![i + 1] = pw[j + 1]]

\* swap(i, j) of Generate, i and j 0-based
swap(pw, i, j) == [pw EXCEPT ![i + 1] = pw[j + 1], ![j + 1] = pw[i + 1]]

\* rand.Shuffle(n, swap): for i := n-1; i > 0; i-- { swap(i, Intn(i+1)) };
\* shuffle(pw, hi, lo, d, k) runs the iterations i = hi down to lo, iteration
\* i taking the draw d[k + (n-1) - i] where n = Len(pw)
RECURSIVE shuffle(_, _, _, _, _)
shuffle(pw, hi, lo, d, k) ==
    IF hi < lo THEN pw
    ELSE IF hi = lo
    THEN swap(pw, hi, Intn(d[k + (Len(pw) - 1) - hi], hi + 1))
    ELSE LET mid == (hi + lo) \div 2
             upper == shuffle(pw, hi, mid + 1, d, k)
         IN \* the iterations hi .. mid+1 are done (swaps keep the length)
            \* before the iterations mid .. lo start
            IF Len(upper) = Len(pw) THEN shuffle(upper, mid, lo, d, k) ELSE pw

\* the number of Int63 values one Generate consumes
drawsOf(p) == 2 * p.pwLength - 1

\* pg.Generate() when the source returns the values d
Generate(p, d) ==
    LET L == p.pwLength
        pw0 == [i \in 1..L |-> 0]
        n0 == L - 1
        pw1 == IF p.symbols
               THEN [pw0 EXCEPT ![n0 + 1] = choiceFromString(pwSymbols, d[1])]
               ELSE pw0
        n1 == IF p.symbols THEN n0 - 1 ELSE n0
        k1 == IF p.symbols THEN 2 ELSE 1
        dig == digitPlaced(p, n1)
        pw2 == IF dig
               THEN [pw1 EXCEPT ![n1 + 1] = choiceFromString(pwDigits, d[k1])]
               ELSE pw1
        n2 == IF dig THEN n1 - 1 ELSE n1
        k2 == IF dig THEN k1 + 1 ELSE k1
        pw3 == fill(pw2, p.chars, n2, d, k2)
    IN shuffle(pw3, L - 1, 1, d, L + 1)

(* ------------------------------- Print -------------------------------- *)
\* a format that leaves the space out
formatBare(p) == p

\* fmt.Fprintf(out, "%s ", p) and fmt.Fprintln(out, p): the bytes written
formatSpace(p) == p \o SPACE
formatLine(p) == p \o NEWLINE

\* w of Print: the passwords of one row
columns(p) ==
    LET w == screenWidth \div p.pwLength
    IN IF w = 0 THEN 1 ELSE w

\* a row end that is one password late
rowEndedLate(i, w) == (i % w) = 1 % w

\* ended = (i % w) == 0
rowEnded(i, w) == (i % w) = 0

\* the test of ended the wrong way round
newlineIfEnded(e) == e

\* "new line if it's needed": if !ended
newlineNeeded(e) == ~e

\* a write error that Print does not look at
errIgnored(ok) == FALSE

\* if err != nil { return err }
errReturned(ok) == ~ok

\* out.Write(b) on the sink s; a write that fails writes nothing
Write(s, b, ok) ==
    [out |-> IF ok THEN s.out \o b ELSE s.out,
     attempts |-> s.attempts + 1,
     failedAt |-> IF ~ok /\ s.failedAt = 0 THEN s.attempts + 1 ELSE s.failedAt]

(* ------------------------------- state -------------------------------- *)
VARIABLES
    args,       \* the arguments New is called with
    file,       \* the file at the path args.sha1File
    pg,         \* the generator New returned, NoPg before and on failure
    random,     \* pg.random: the state of the random source
    err,        \* the error New returned
    generated,  \* how many passwords Generate has returned
    password,   \* the password Generate returned last
    emitted,    \* the passwords received from the channel, in order
    ppc,        \* the goroutine of Passwords: idle, run, send, closed
    cpc,        \* Print: idle, range, done
    ci,         \* i of Print
    ended,      \* ended of Print
    sink,       \* the io.Writer: bytes written, write calls, first failed call
    ret,        \* what Print returned
    seeding,    \* the (secure, seed) randomSource was last called with, and
                \* whether the seed was given explicitly
    twin,       \* a second generator, built by a second call of New
    osArgs,     \* the positional arguments of the command line (flag.Args())
    parsed      \* what ParseArgs returned, NoParsed before

vars == <<args, file, pg, random, err, generated, password, emitted,
          ppc, cpc, ci, ended, sink, ret, seeding, twin, osArgs, parsed>>

genVars == <<random, generated, password, emitted>>
printVars == <<ppc, cpc, ci, ended, sink, ret>>
cliVars == <<osArgs, parsed>>

Flags == [noNumerals : BOOLEAN, numerals : BOOLEAN, noCapitalize : BOOLEAN,
          ambiguous : BOOLEAN, symbols : BOOLEAN, noVowels : BOOLEAN]

\* "abcdefghijklmnJKLMNOPQRSTUVWXYZ01234" (TestRemoveChars)
removeTest == Bytes(97, 110) \o Bytes(74, 90) \o Bytes(48, 52)
\* every letter and digit (TestNewFail)
removeAll == pwLowers \o pwDigits \o pwUppers
RemoveStrings == {<<>>, removeTest, removeAll}

MkArgs(fl, len, num, rm, path, one, sec) ==
    [pwLength |-> len, numPw |-> num, removeChars |-> rm, sha1File |-> path,
     noNumerals |-> fl.noNumerals, numerals |-> fl.numerals, oneLine |-> one,
     noCapitalize |-> fl.noCapitalize, ambiguous |-> fl.ambiguous,
     symbols |-> fl.symbols, noVowels |-> fl.noVowels, secure |-> sec]

constructed == pg # NoPg

NoSink == [out |-> <<>>, attempts |-> 0, failedAt |-> 0]
NoSeeding == [secure |-> FALSE, seed |-> 0, explicit |-> FALSE]
NoParsed == [none |-> TRUE]
NoTwin == [pg |-> NoPg, random |-> NoRandom, err |-> NoErr,
           generated |-> 0, emitted |-> <<>>]

\* nothing has been constructed yet
Fresh ==
    /\ pg = NoPg
    /\ random = NoRandom
    /\ err = NoErr
    /\ generated = 0
    /\ password = <<>>
    /\ emitted = <<>>
    /\ ppc = "idle"
    /\ cpc = "idle"
    /\ ci = 0
    /\ ended = FALSE
    /\ sink = NoSink
    /\ ret = NoErr
    /\ seeding = NoSeeding
    /\ twin = NoTwin
    /\ parsed = NoParsed

\* generation runs: every flag, every removal string, lengths 0 .. MaxLen.
\* A secure generator is asked for one password (its draws do not depend on
\* what it returned before), a seeded one for up to MaxNumPw.
InitGen ==
    /\ \E fl \in Flags, len \in 0..MaxLen, rm \in RemoveStrings, sec \in BOOLEAN :
         \E num \in 0..(IF sec THEN 1 ELSE MaxNumPw) :
            args = MkArgs(fl, len, num, rm, "", FALSE, sec)
    /\ file = NoFile
    /\ osArgs = <<>>
    /\ Fresh

\* pg, err := New(...)
NewStep ==
    /\ ~constructed /\ err = NoErr
    /\ LET r == New(args, file)
       IN /\ pg' = r.pg
          /\ err' = r.err
          /\ \E now \in 1..MaxClock :
                random' = IF r.err = NoErr
                          THEN randomSource(args.secure, r.seed, now)
                          ELSE NoRandom
          /\ seeding' = [secure |-> args.secure, seed |-> r.seed,
                         explicit |-> FALSE]
    /\ UNCHANGED <<args, file, generated, password, emitted, twin>>
    /\ UNCHANGED printVars
    /\ UNCHANGED cliVars

\* one iteration of the loop of Passwords with a consumer that ranges over
\* the channel: for i < numPw { c <- Generate() }
GenerateStep ==
    /\ constructed
    /\ generated < pg.numPw
    /\ \E d \in Draws(random, drawsOf(pg)) :
         /\ password' = Generate(pg, d)
         /\ emitted' = Append(emitted, Generate(pg, d))
         /\ random' = After(random, drawsOf(pg))
    /\ generated' = generated + 1
    /\ UNCHANGED <<args, file, pg, err, seeding, twin>>
    /\ UNCHANGED printVars
    /\ UNCHANGED cliVars

NextGen == NewStep \/ GenerateStep

SpecGen == InitGen /\ [][NextGen]_vars

(* ------------------------- Print and Passwords ------------------------ *)
\* lengths with 80, 3, 2 and 1 passwords a row
PrintLengths == {1, screenWidth \div 3, screenWidth \div 2, screenWidth + 1}

\* printing runs: a seeded generator, with and without symbols and numerals
InitPrint ==
    /\ \E fl \in Flags, len \in PrintLengths, num \in 1..MaxNumPw, one \in BOOLEAN :
         /\ ~fl.noCapitalize /\ ~fl.ambiguous /\ ~fl.noVowels
         /\ args = MkArgs(fl, len, num, <<>>, "", one, FALSE)
    /\ file = NoFile
    /\ osArgs = <<>>
    /\ Fresh

\* Print is called: ch := pg.Passwords() starts the goroutine
PrintCall ==
    /\ constructed /\ cpc = "idle" /\ ppc = "idle"
    /\ cpc' = "range"
    /\ ppc' = "run"
    /\ ci' = 0
    /\ ended' = FALSE
    /\ UNCHANGED <<args, file, pg, err, sink, ret, seeding, twin>>
    /\ UNCHANGED genVars
    /\ UNCHANGED cliVars

\* the goroutine: i < pg.numPw, Generate() returns and the send begins
ProducerGenerate ==
    /\ ppc = "run"
    /\ generated < pg.numPw
    /\ \E d \in Draws(random, drawsOf(pg)) :
         /\ password' = Generate(pg, d)
         /\ random' = After(random, drawsOf(pg))
    /\ generated' = generated + 1
    /\ ppc' = "send"
    /\ UNCHANGED <<args, file, pg, err, emitted, cpc, ci, ended, sink, ret,
                   seeding, twin>>
    /\ UNCHANGED cliVars

\* a goroutine that closes the channel after its first password
ProducerCloseEarly ==
    /\ ppc = "run"
    /\ ~(generated < 1)
    /\ ppc' = "closed"
    /\ UNCHANGED <<args, file, pg, err, cpc, ci, ended, sink, ret, seeding, twin>>
    /\ UNCHANGED genVars
    /\ UNCHANGED cliVars

\* the goroutine: the loop is over, close(c)
ProducerClose ==
    /\ ppc = "run"
    /\ ~(generated < pg.numPw)
    /\ ppc' = "closed"
    /\ UNCHANGED <<args, file, pg, err, cpc, ci, ended, sink, ret, seeding, twin>>
    /\ UNCHANGED genVars
    /\ UNCHANGED cliVars

\* Print receives a password from the channel and writes it: one iteration
\* of for p := range ch, in either mode
PrintReceive ==
    /\ cpc = "range" /\ ppc = "send"
    /\ \E ok \in BOOLEAN :
         LET i1 == IF pg.oneLine THEN ci ELSE ci + 1
             e1 == IF pg.oneLine THEN ended ELSE rowEnded(i1, columns(pg))
             b == IF e1 THEN formatLine(password) ELSE formatSpace(password)
         IN /\ ci' = i1
            /\ ended' = e1
            /\ sink' = Write(sink, b, ok)
            /\ IF errReturned(ok)
               THEN cpc' = "done" /\ ret' = ErrWrite
               ELSE cpc' = "range" /\ ret' = ret
    /\ ppc' = "run"
    /\ emitted' = Append(emitted, password)
    /\ UNCHANGED <<args, file, pg, err, random, generated, password, seeding,
                   twin>>
    /\ UNCHANGED cliVars

\* the channel is closed: the loop of Print ends, the last newline is written
\* if it is needed, and Print returns
PrintFinish ==
    /\ cpc = "range" /\ ppc = "closed"
    /\ IF newlineNeeded(ended)
       THEN \E ok \in BOOLEAN :
              /\ sink' = Write(sink, NEWLINE, ok)
              /\ ret' = IF errReturned(ok) THEN ErrWrite ELSE NoErr
       ELSE sink' = sink /\ ret' = NoErr
    /\ cpc' = "done"
    /\ UNCHANGED <<args, file, pg, err, ppc, ci, ended, seeding, twin>>
    /\ UNCHANGED genVars
    /\ UNCHANGED cliVars

NextPrint ==
    NewStep \/ PrintCall \/ ProducerGenerate \/ ProducerClose
    \/ PrintReceive \/ PrintFinish

SpecPrint == InitPrint /\ [][NextPrint]_vars

\* the Go scheduler runs every goroutine that can take a step: the main
\* goroutine (New, Print) and the goroutine of Passwords
FairPrint ==
    /\ WF_vars(NewStep)
    /\ WF_vars(PrintCall)
    /\ WF_vars(ProducerGenerate)
    /\ WF_vars(ProducerClose)
    /\ WF_vars(PrintReceive)
    /\ WF_vars(PrintFinish)

\* runs of Print that are followed to their end: short passwords, with and
\* without symbols and numerals, in both modes
InitChannel ==
    /\ \E fl \in Flags, len \in 1..MaxLen, num \in 1..MaxNumPw, one \in BOOLEAN :
         /\ ~fl.noCapitalize /\ ~fl.ambiguous /\ ~fl.noVowels
         /\ args = MkArgs(fl, len, num, <<>>, "", one, FALSE)
    /\ file = NoFile
    /\ osArgs = <<>>
    /\ Fresh

SpecChannel == InitChannel /\ [][NextPrint]_vars /\ FairPrint

(* ----------------------- two generators, one seed --------------------- *)
\* "a" and "abcdef" (TestSHA1)
SeedFiles == {<<97>>, Bytes(97, 102)}

\* two runs: New is called twice with the same arguments while the file keeps
\* its content.  A secure generator is asked for one password.
InitDet ==
    /\ \E fl \in Flags, len \in 1..MaxDetLen, sec \in BOOLEAN :
         \E num \in 1..(IF sec THEN 1 ELSE MaxNumPw), path \in {"", "seed.txt"} :
            /\ ~fl.noNumerals /\ ~fl.noCapitalize /\ ~fl.ambiguous /\ ~fl.noVowels
            /\ args = MkArgs(fl, len, num, <<>>, path, FALSE, sec)
            /\ IF path = ""
               THEN file = NoFile
               ELSE \E st \in {"ok", "noopen", "noread", "noclose"}, c \in SeedFiles :
                      file = [status |-> st, content |-> c]
    /\ osArgs = <<>>
    /\ Fresh

\* the second pg, err := New(...) with the same arguments
TwinNew ==
    /\ twin.pg = NoPg /\ twin.err = NoErr
    /\ LET r == New(args, file)
       IN \E now \in 1..MaxClock :
            twin' = [twin EXCEPT
                       !.pg = r.pg,
                       !.err = r.err,
                       !.random = IF r.err = NoErr
                                  THEN randomSource(args.secure, r.seed, now)
                                  ELSE NoRandom]
    /\ UNCHANGED <<args, file, pg, err, seeding>>
    /\ UNCHANGED genVars
    /\ UNCHANGED printVars
    /\ UNCHANGED cliVars

\* pg.random = rand.New(randomSource(false, seed)) on both generators, with
\* the same explicit seed (TestNoSecure)
Reseed ==
    /\ constructed /\ twin.pg # NoPg
    /\ generated = 0 /\ twin.generated = 0
    /\ \E seed \in 0..MaxSeed, now1 \in 1..MaxClock, now2 \in 1..MaxClock :
         /\ random' = randomSource(FALSE, seed, now1)
         /\ twin' = [twin EXCEPT !.random = randomSource(FALSE, seed, now2)]
         /\ seeding' = [secure |-> FALSE, seed |-> seed, explicit |-> TRUE]
    /\ UNCHANGED <<args, file, pg, err, generated, password, emitted>>
    /\ UNCHANGED printVars
    /\ UNCHANGED cliVars

\* one iteration of the loop of Passwords on the second generator
TwinGenerate ==
    /\ twin.pg # NoPg
    /\ twin.generated < twin.pg.numPw
    /\ \E d \in Draws(twin.random, drawsOf(twin.pg)) :
         twin' = [twin EXCEPT
                    !.emitted = Append(@, Generate(twin.pg, d)),
                    !.random = After(@, drawsOf(twin.pg)),
                    !.generated = @ + 1]
    /\ UNCHANGED <<args, file, pg, err, seeding>>
    /\ UNCHANGED genVars
    /\ UNCHANGED printVars
    /\ UNCHANGED cliVars

NextDet == NewStep \/ TwinNew \/ Reseed \/ GenerateStep \/ TwinGenerate

SpecDet == InitDet /\ [][NextDet]_vars

(* --------------------------- the default run --------------------------- *)
\* the flags of gopwgen when no option is given: numerals = true, the others
\* false
defaultFlags ==
    [noNumerals |-> FALSE, numerals |-> TRUE, noCapitalize |-> FALSE,
     ambiguous |-> FALSE, symbols |-> FALSE, noVowels |-> FALSE]

\* gopwgen without options: length 8, one password or the default 160, no
\* removal string, seeded from the clock or from a seed file
InitDefault ==
    /\ \E num \in {1, defaultNumPw}, path \in {"", "seed.txt"} :
         /\ args = MkArgs(defaultFlags, defaultPwLength, num, <<>>, path,
                          FALSE, FALSE)
         /\ IF path = ""
            THEN file = NoFile
            ELSE \E c \in SeedFiles : file = [status |-> "ok", content |-> c]
    /\ osArgs = <<>>
    /\ Fresh

NextDefault == NewStep \/ GenerateStep

SpecDefault == InitDefault /\ [][NextDefault]_vars

(* ------------------------------ New alone ------------------------------ *)
\* calls of New: every flag, every removal string, lengths and counts from 0,
\* no seed file or a seed file that is fine, cannot be opened, cannot be read
\* or cannot be closed
InitNew ==
    /\ \E fl \in Flags, len \in 0..MaxLen, rm \in RemoveStrings, sec \in BOOLEAN :
         \E num \in 0..1, path \in {"", "seed.txt"} :
            /\ args = MkArgs(fl, len, num, rm, path, FALSE, sec)
            /\ IF path = ""
               THEN file = NoFile
               ELSE \E st \in {"ok", "noopen", "noread", "noclose"}, c \in SeedFiles :
                      file = [status |-> st, content |-> c]
    /\ osArgs = <<>>
    /\ Fresh

NextNew == NewStep

SpecNew == InitNew /\ [][NextNew]_vars

(* ---------------------------- ParseArgs alone -------------------------- *)
\* the bytes of the arguments: 0, 3, -, + and a
ArgBytes == {48, 51, 45, 43, 97}

\* the arguments of up to MaxArgLen bytes
ArgStrings == UNION {[1..k -> ArgBytes] : k \in 0..MaxArgLen}

\* what follows the second argument: nothing, "7", "7" "8" "9"
\* (TestParseArgs), or arguments that are no numbers
ArgTails == {<<>>, <<<<55>>>>, <<<<55>>, <<56>>, <<57>>>>, <<<<97>>, <<45, 49>>>>}

\* the command lines: none, one or two arguments, or two and a tail
InitArgs ==
    /\ \/ osArgs = <<>>
       \/ \E s \in ArgStrings : osArgs = <<s>>
       \/ \E s \in ArgStrings, t \in ArgStrings, tail \in ArgTails :
            osArgs = <<s, t>> \o tail
    /\ args = MkArgs(defaultFlags, defaultPwLength, defaultNumPw, <<>>, "",
                     FALSE, FALSE)
    /\ file = NoFile
    /\ Fresh

\* pwLength, numPw, err := pwgen.ParseArgs(args)
ParseArgsStep ==
    /\ parsed = NoParsed
    /\ parsed' = ParseArgs(osArgs)
    /\ UNCHANGED <<args, file, pg, err, seeding, twin, osArgs>>
    /\ UNCHANGED genVars
    /\ UNCHANGED printVars

NextArgs == ParseArgsStep

SpecArgs == InitArgs /\ [][NextArgs]_vars

(* ------------------- claims about Generate and alphabet --------------- *)
Digits == Elems(pwDigits)
Symbols == Elems(pwSymbols)
Ambiguous == Elems(pwAmbiguous)

\* a password has been returned by Generate
returned == constructed /\ generated > 0

\* numerals are required of the generator
numeralsRequired == pg.numerals /\ ~pg.noNumerals

\* C1: with numerals = true, noNumerals = false and pwLength > 1, every
\* password returned by Generate holds at least one digit.
C1_DigitWhenLengthOver1 ==
    (returned /\ numeralsRequired /\ pg.pwLength > 1)
        => ContainsAny(password, Digits)

\* C2: with ambiguous = true no password returned by Generate holds a byte
\* of the ambiguous set, whatever the other flags.
C2_NoAmbiguousByte ==
    (returned /\ pg.ambiguous) => ~ContainsAny(password, Ambiguous)

\* C3: no password returned by Generate holds a byte of the removal string
\* New was given.
C3_NoRemovedByte ==
    returned => ~ContainsAny(password, Elems(args.removeChars))

\* C5: the alphabet pg.chars holds no byte more than once.
C5_AlphabetDuplicateFree ==
    constructed =>
        \A i, j \in 1..Len(pg.chars) : i # j => pg.chars[i] # pg.chars[j]

\* C10: with symbols = true every password returned by Generate holds at
\* least one byte of pwSymbols, for every pwLength >= 1 (also for pwLength = 1
\* with numerals required, where only the symbol is placed).
C10_SymbolWhenSymbols ==
    (returned /\ pg.symbols) => ContainsAny(password, Symbols)

\* C10 witness: a one-byte password of a generator with symbols and numerals
\* required has been returned, and it is a symbol.
C10_Witness ==
    /\ returned /\ pg.symbols /\ numeralsRequired /\ pg.pwLength = 1
    /\ Len(password) = 1 /\ password[1] \in Symbols

\* C14: for every configuration New accepts, every password returned by
\* Generate is exactly pwLength bytes long.
C14_LengthIsPwLength ==
    returned =>
        /\ Len(password) = pg.pwLength
        /\ \A i \in 1..Len(emitted) : Len(emitted[i]) = args.pwLength

\* C14 witness: a generator with symbols and numerals required has returned
\* two passwords of the longest length.
C14_Witness ==
    /\ returned /\ pg.symbols /\ numeralsRequired
    /\ pg.pwLength = MaxLen /\ generated >= 2
    /\ Len(password) = MaxLen

\* C15: for every configuration New accepts with noNumerals = true, whatever
\* numerals, symbols and the other flags, no password returned by Generate
\* holds a byte of "0123456789".
C15_NoDigitWhenNoNumerals ==
    (returned /\ pg.noNumerals) =>
        /\ ~ContainsAny(password, 48..57)
        /\ \A i \in 1..Len(emitted) : ~ContainsAny(emitted[i], 48..57)

\* C15 witness: a generator with noNumerals, numerals and symbols all true
\* has returned a password of two bytes or more without a digit.
C15_Witness ==
    /\ returned /\ pg.noNumerals /\ pg.numerals /\ pg.symbols
    /\ pg.pwLength >= 2
    /\ ~ContainsAny(password, 48..57)

Letters == Elems(pwLowers) \cup Elems(pwUppers)

\* the positions of pw that hold a digit
digitPositions(pw) == {i \in 1..Len(pw) : pw[i] \in Digits}

\* a password has been returned by a generator built with the defaults
returnedByDefault ==
    /\ returned
    /\ args.numerals /\ ~args.noNumerals /\ ~args.symbols
    /\ args.removeChars = <<>>
    /\ args.pwLength = defaultPwLength

\* C11, as the spec states it: with the defaults and length 8 every password
\* holds exactly one digit, its seven other bytes are letters, and it holds no
\* symbol.
C11_DefaultExactlyOneDigit ==
    returnedByDefault =>
        /\ Cardinality(digitPositions(password)) = 1
        /\ \A i \in 1..Len(password) :
              password[i] \in Digits \/ password[i] \in Letters
        /\ ~ContainsAny(password, Symbols)

\* C11, amended: with the defaults and length 8 every password holds at
\* least one digit (the alphabet holds the digits too, so it may hold up to
\* eight), every byte of it is a letter or a digit, and it holds no symbol.
C11_DefaultAtLeastOneDigit ==
    returnedByDefault =>
        /\ Len(password) = defaultPwLength
        /\ Cardinality(digitPositions(password)) >= 1
        /\ \A i \in 1..Len(password) :
              password[i] \in Digits \/ password[i] \in Letters
        /\ ~ContainsAny(password, Symbols)

\* C11 witness: the default generator has returned all its 160 passwords, the
\* last one holding letters and two digits or more.
C11_Witness ==
    /\ returnedByDefault /\ generated = defaultNumPw
    /\ Cardinality(digitPositions(password)) >= 2
    /\ ContainsAny(password, Letters)

(* ------------------------------ claims about New ---------------------- *)
\* New has returned
called == constructed \/ err # NoErr

\* the candidate bytes of the arguments a, and the bytes removed from them
candidateSet(a) ==
    Elems(pwLowers)
    \cup (IF a.noNumerals THEN {} ELSE Digits)
    \cup (IF a.noCapitalize THEN {} ELSE Elems(pwUppers))
    \cup (IF a.symbols THEN Symbols ELSE {})

removedSet(a) ==
    Elems(a.removeChars)
    \cup (IF a.ambiguous THEN Ambiguous ELSE {})
    \cup (IF a.noVowels THEN Elems(pwVowels) ELSE {})
    \cup (IF a.noNumerals THEN Digits ELSE {})

\* the arguments the claim names as rejected, but for the seed file
badArguments ==
    \/ args.pwLength < 1
    \/ args.numPw < 1
    \/ candidateSet(args) \subseteq removedSet(args)

\* New returned an error and no generator
rejected == pg = NoPg /\ err # NoErr

\* New returned a generator with a non-empty alphabet
accepted == constructed /\ err = NoErr /\ Len(pg.chars) >= 1

\* C12, as the spec states it: New returns an error and no generator when
\* pwLength < 1, numPw < 1, the filtered alphabet is empty or the seed file
\* cannot be opened, and a generator with a non-empty alphabet in every other
\* case.
C12_NewErrorsAsStated ==
    called =>
        IF badArguments \/ (args.sha1File # "" /\ file.status = "noopen")
        THEN rejected
        ELSE accepted

\* C12, amended: New also returns an error and no generator when the seed
\* file opens but cannot be read or closed; in every other case it returns a
\* generator with a non-empty alphabet.
C12_NewErrors ==
    called =>
        IF badArguments
           \/ (args.sha1File # ""
               /\ file.status \in {"noopen", "noread", "noclose"})
        THEN rejected
        ELSE accepted

\* C12 witness: New was called with a valid length and count and the removal
\* string of every letter and digit, and returned "no symbols".
C12_Witness ==
    /\ args.pwLength >= 1 /\ args.numPw >= 1 /\ args.sha1File = ""
    /\ args.removeChars = removeAll /\ ~args.symbols
    /\ pg = NoPg /\ err = ErrNoSymbols

\* C18: whenever a non-empty seed-file path cannot be opened or read, New
\* returns an error and no generator, for every value of the other options
\* (secure = true too, where the seed would not be used); with a valid length
\* and count the error is that of the file.
C18_SeedFileErrorAlways ==
    (called /\ args.sha1File # "" /\ file.status \in {"noopen", "noread"}) =>
        /\ rejected
        /\ (args.pwLength >= 1 /\ args.numPw >= 1) =>
              err = (IF file.status = "noopen" THEN ErrOpen ELSE ErrRead)

\* C18 witness: New was called with secure = true, valid arguments and a seed
\* file that opens but cannot be read, and returned the read error.
C18_Witness ==
    /\ args.secure /\ args.pwLength >= 1 /\ args.numPw >= 1
    /\ args.removeChars = <<>>
    /\ args.sha1File # "" /\ file.status = "noread"
    /\ pg = NoPg /\ err = ErrRead

(* --------------------------- claims about ParseArgs -------------------- *)
\* s is a decimal integer: an optional sign and one digit or more
isInteger(s) ==
    \E sign \in {<<>>, <<45>>, <<43>>} :
        \E k \in 1..Len(s) :
            /\ Len(s) = Len(sign) + k
            /\ SubSeq(s, 1, Len(sign)) = sign
            /\ \A i \in (Len(sign) + 1)..Len(s) : s[i] \in Digits

\* ten to the power k
RECURSIVE pow10(_)
pow10(k) == IF k = 0 THEN 1 ELSE 10 * pow10(k - 1)

\* the sum of the digits of s[from..], each times its power of ten
RECURSIVE magnitude(_, _)
magnitude(s, from) ==
    IF from > Len(s) THEN 0
    ELSE (s[from] - 48) * pow10(Len(s) - from) + magnitude(s, from + 1)

\* the value of the integer s
valueOf(s) ==
    IF s[1] = 45 THEN 0 - magnitude(s, 2)
    ELSE IF s[1] = 43 THEN magnitude(s, 2)
    ELSE magnitude(s, 1)

\* s is an integer and it is 1 or more
usable(s) == isInteger(s) /\ valueOf(s) >= 1

parseFailed == parsed.pwLength = 0 /\ parsed.numPw = 0 /\ parsed.err # NoErr

\* C13: ParseArgs returns (8, 160, nil) for no argument, (args[0], 160, nil)
\* for one, (args[0], args[1], nil) for two or more whatever follows the
\* second, and (0, 0, error) whenever an argument it uses is no integer or is
\* less than 1.
C13_ParseArgs ==
    parsed # NoParsed =>
        LET n == Len(osArgs)
        IN IF n = 0
           THEN parsed = [pwLength |-> 8, numPw |-> 160, err |-> NoErr]
           ELSE IF n = 1
           THEN IF usable(osArgs[1])
                THEN parsed = [pwLength |-> valueOf(osArgs[1]), numPw |-> 160,
                               err |-> NoErr]
                ELSE parseFailed
           ELSE IF usable(osArgs[1]) /\ usable(osArgs[2])
                THEN parsed = [pwLength |-> valueOf(osArgs[1]),
                               numPw |-> valueOf(osArgs[2]), err |-> NoErr]
                ELSE parseFailed

\* C13 witness: ParseArgs was given "30", "+3" and two more arguments that are
\* no numbers, and returned (30, 3, nil).
C13_Witness ==
    /\ Len(osArgs) = 4
    /\ osArgs[1] = <<51, 48>> /\ osArgs[2] = <<43, 51>> /\ osArgs[3] = <<97>>
    /\ parsed = [pwLength |-> 30, numPw |-> 3, err |-> NoErr]

(* ---------------------------- claims about Print ---------------------- *)
\* Print has returned nil
printed == cpc = "done" /\ ret = NoErr

\* the i-th token of L bytes in out, tokens being one byte apart
token(out, L, i) == SubSeq(out, (i - 1) * (L + 1) + 1, (i - 1) * (L + 1) + L)

C8_ColumnLayout ==
    (constructed /\ ~pg.oneLine /\ sink.failedAt = 0) =>
        LET L == pg.pwLength
            n == pg.numPw
            d == 80 \div L
            w == IF d >= 1 THEN d ELSE 1
            out == sink.out
        IN /\ \A i \in 1..Len(emitted) :
                /\ token(out, L, i) = emitted[i]
                /\ out[i * (L + 1)] = (IF i % w = 0 THEN 10 ELSE 32)
           /\ \A k \in 1..(Len(out) - 1) : ~(out[k] = 10 /\ out[k + 1] = 10)
           /\ printed =>
                /\ Len(emitted) = n
                /\ Len(out) = n * (L + 1) + (IF n % w = 0 THEN 0 ELSE 1)
                /\ out[Len(out)] = 10
                /\ out[Len(out) - 1] # 10

\* C8 witness: Print returned nil in column mode for passwords longer than
\* the screen is wide, one password a row.
C8_Witness ==
    /\ printed /\ ~pg.oneLine /\ pg.pwLength > screenWidth /\ pg.numPw >= 2
    /\ Len(sink.out) = pg.numPw * (pg.pwLength + 1)

\* C9: when a write to the sink fails, Print makes no further write and
\* returns that error; Print returns nil only when every write succeeded.
C9_WriteErrorReturned ==
    /\ sink.failedAt # 0 =>
         /\ sink.attempts = sink.failedAt
         /\ cpc = "done"
         /\ ret = ErrWrite
    /\ printed => sink.failedAt = 0

\* C9 witness: every password was written and the write of the final newline
\* failed; Print returned the error.
C9_Witness ==
    /\ cpc = "done" /\ ret = ErrWrite
    /\ Len(emitted) = pg.numPw
    /\ sink.failedAt = pg.numPw + 1

(* ------------------------- claims about Passwords --------------------- *)
\* what holds of the channel at every moment: the producer is at most one
\* password ahead of the consumer, what was received last is what Generate
\* returned last, and a closed channel has delivered numPw passwords
channelState ==
    constructed =>
        /\ generated <= pg.numPw
        /\ Len(emitted) = (IF ppc = "send" THEN generated - 1 ELSE generated)
        /\ (ppc # "send" /\ generated > 0) => emitted[generated] = password
        /\ ppc = "closed" => Len(emitted) = pg.numPw

\* a receive appends the password Generate returned last, and nothing else
\* changes what was received
receivedInOrder ==
    emitted' # emitted => (ppc = "send" /\ emitted' = Append(emitted, password))

\* Generate runs in the goroutine of Passwords only, one call at a time, each
\* followed by the send of its password
generateInProducer ==
    (generated' # generated \/ password' # password) =>
        (ppc = "run" /\ ppc' = "send" /\ generated' = generated + 1)

\* C16: while the consumer keeps receiving (no write fails and makes Print
\* return), the channel delivers exactly numPw passwords in the order
\* Generate produced them and is then closed; at every moment at most one
\* generated password is not yet received, and Generate is run by the
\* goroutine of Passwords alone, one call at a time.
C16_ChannelDelivery ==
    /\ []channelState
    /\ [][receivedInOrder /\ generateInProducer]_vars
    /\ (cpc = "range") ~>
          ((ppc = "closed" /\ Len(emitted) = pg.numPw) \/ ret = ErrWrite)

\* C16 witness: every write succeeded, the channel delivered the largest
\* number of passwords and was closed, and Print returned nil.
C16_Witness ==
    /\ printed /\ ppc = "closed" /\ sink.failedAt = 0
    /\ pg.numPw = MaxNumPw /\ Len(emitted) = MaxNumPw
    /\ generated = MaxNumPw

\* C17: whenever Print returns, with nil or with a write error, the goroutine
\* of Passwords terminates: it is not left blocked on the send for ever.
C17_ProducerTerminates == (cpc = "done") ~> (ppc = "closed")

(* ------------------------ claims about determinism -------------------- *)
\* both generators exist
bothBuilt == constructed /\ twin.pg # NoPg

\* the two runs agree at every position both have reached
samePasswords ==
    \A i \in 1..Len(emitted) :
        i <= Len(twin.emitted) => emitted[i] = twin.emitted[i]

\* C4, as the spec states it: two generators built with identical arguments
\* and seed file content, or reseeded with the same explicit seed, emit the
\* same passwords position by position, whatever the configuration and seed.
C4_SameSeedSameSequenceAsStated ==
    (bothBuilt /\ (args.sha1File # "" \/ seeding.explicit)) => samePasswords

\* C4, amended: the sequences are identical provided secure = false and the
\* seed given to randomSource (the digest of the seed file, or the explicit
\* seed) is not 0.
C4_SeededSameSequence ==
    (bothBuilt /\ ~seeding.secure /\ seeding.seed # 0) => samePasswords

\* C4 witness: two generators seeded from the same file have each emitted all
\* their passwords, two or more, and the sequences are equal.
C4_Witness ==
    /\ bothBuilt /\ ~seeding.secure /\ args.sha1File # ""
    /\ pg.numPw >= 2
    /\ Len(emitted) = pg.numPw /\ Len(twin.emitted) = pg.numPw
    /\ emitted = twin.emitted

====
